---- MODULE Spec2Model ----
(***************************************************************************)
(* A model of src/app.py: the Pro unlock gate, the inference gateway, the  *)
(* idea / caption / content-kit generators and the idea export writer.     *)
(*                                                                         *)
(* Strings are sequences of tokens.  User-supplied text, environment       *)
(* values and gateway responses are sequences of one-character strings,    *)
(* so that strip(), lower() and split("---") are computed character by     *)
(* character.  Fixed literals of the templates are single tokens, written  *)
(* in ASCII: the source's dash, arrow and apostrophe become -, -> and '.   *)
(***************************************************************************)
EXTENDS Integers, Sequences, FiniteSets, TLC

(***************************** bounds **************************************)
\* longest unlock code enumerated over CodeAlphabet
MaxCodeLen == 3
\* longest gateway response enumerated over RawAlphabet
MaxRawLen == 5
\* largest total handed to fallback_ideas when it is exercised on its own
MaxTotal == 5
\* the wall clock advances in ticks up to MaxClock
MaxClock == 3
\* number of generate_ideas calls followed in one session
MaxCalls == 2

(************************ character-level strings **************************)
Whitespace == {" ", "\n", "\t"}

UpperCase == <<"A","B","C","D","E","F","G","H","I","J","K","L","M",
               "N","O","P","Q","R","S","T","U","V","W","X","Y","Z">>
LowerCase == <<"a","b","c","d","e","f","g","h","i","j","k","l","m",
               "n","o","p","q","r","s","t","u","v","w","x","y","z">>

\* str.lower() on one character
LowerChar(c) ==
    IF \E i \in 1..26 : UpperCase[i] = c
    THEN LowerCase[CHOOSE i \in 1..26 : UpperCase[i] = c]
    ELSE c

\* str.lower()
Lower(s) == [i \in 1..Len(s) |-> LowerChar(s[i])]

RECURSIVE LStrip(_)
LStrip(s) ==
    IF s = <<>> THEN <<>>
    ELSE IF Head(s) \in Whitespace THEN LStrip(Tail(s))
    ELSE s

RECURSIVE RStrip(_)
RStrip(s) ==
    IF s = <<>> THEN <<>>
    ELSE IF s[Len(s)] \in Whitespace THEN RStrip(SubSeq(s, 1, Len(s) - 1))
    ELSE s

\* str.strip()
Strip(s) == RStrip(LStrip(s))

\* all sequences over A of length at most n
RECURSIVE SeqsUpTo(_, _)
SeqsUpTo(A, n) ==
    IF n = 0 THEN {<<>>}
    ELSE LET shorter == SeqsUpTo(A, n - 1)
         IN  shorter \cup {Append(s, c) : s \in {t \in shorter : Len(t) = n - 1}, c \in A}

\* sep.join(parts)
RECURSIVE Join(_, _)
Join(sep, parts) ==
    IF parts = <<>> THEN <<>>
    ELSE IF Len(parts) = 1 THEN parts[1]
    ELSE parts[1] \o sep \o Join(sep, Tail(parts))

\* `needle in hay`
Contains(hay, needle) ==
    \E i \in 0..(Len(hay) - Len(needle)) :
        \A j \in 1..Len(needle) : hay[i + j] = needle[j]

(**************************** configuration ********************************)
\* the value of an unset environment variable
Unset == <<"<unset>">>

\* os.getenv(name, default)
GetEnv(value, default) == IF value = Unset THEN default ELSE value

DefaultUnlockCode == <<"l","o","o","m","v","a","l","e","-","p","r","o">>

VARIABLES
    HF_TOKEN,          \* module global: the stripped credential
    InferenceClient,   \* module global: TRUE iff the client library imported
    PRO_UNLOCK_CODE,   \* module global: the stripped, lowercased secret
    pro_state,         \* gr.State: the session Pro flag
    clock,             \* wall clock, in ticks of 1/TicksPerSecond second
    files,             \* /tmp: path -> ordinal of the call that wrote it
    calls,             \* number of generate_ideas calls that wrote exports
    last               \* the most recent handler call: arguments and result

vars == <<HF_TOKEN, InferenceClient, PRO_UNLOCK_CODE, pro_state, clock, files, calls, last>>

(***************************** small helpers *******************************)
Min(a, b) == IF a <= b THEN a ELSE b

\* s[:n]
Prefix(s, n) == SubSeq(s, 1, Min(IF n < 0 THEN 0 ELSE n, Len(s)))

\* str(n)
Str(n) == <<ToString(n)>>

\* Python None
None == <<"None">>

(************************** static knowledge base **************************)
PLATFORMS == <<"Instagram Reel", "Instagram Carousel", "TikTok", "Pinterest Pin",
               "YouTube Shorts", "LinkedIn", "Blog/Post", "Newsletter">>

MOODS == <<"cozy", "dreamy", "minimalist", "bold", "poetic",
           "witty", "cinematic", "vintage", "kawaii", "zen">>

TONES == <<"Warm storyteller", "Data-backed expert", "Hype friend",
           "Luxury concierge", "Playful mentor", "Direct-to-consumer pitch">>

PERSONAS ==
    [p \in {"Wellness Consumers", "Busy Parents", "Gen Z Creators", "Premium Shoppers"} |->
       CASE p = "Wellness Consumers" ->
              [pain_points |-> <<"Burnout from fast routines", "Seeking calm rituals",
                                 "Overloaded by wellness jargon">>,
               desires |-> <<"Simple self-nurture", "Proof-backed benefits",
                             "Products that feel like a hug">>,
               keywords |-> <<"grounding", "slow rituals", "mind-body reset">>]
         [] p = "Busy Parents" ->
              [pain_points |-> <<"Juggling family and self-time", "Limited attention spans",
                                 "Need bite-sized wins">>,
               desires |-> <<"Quick wins that feel meaningful", "Flexible schedules",
                             "Relatable stories">>,
               keywords |-> <<"five-minute reset", "family-first", "real-life demo">>]
         [] p = "Gen Z Creators" ->
              [pain_points |-> <<"Scroll fatigue", "Skeptical of brand speak",
                                 "Need authenticity">>,
               desires |-> <<"Playful experimentation", "Share-worthy hooks",
                             "Community-first energy">>,
               keywords |-> <<"duet this", "lofi chaos", "main-character energy">>]
         [] p = "Premium Shoppers" ->
              [pain_points |-> <<"Tired of mass-market feel", "Need elevated proof",
                                 "Guarded with trust">>,
               desires |-> <<"Luxury cues", "White-glove service", "Testimonials">>,
               keywords |-> <<"artisan", "limited release", "concierge-level">>]]

\* PERSONAS.get(persona, {}).get(field, [])
PersonaField(persona, field) ==
    IF persona \in DOMAIN PERSONAS THEN PERSONAS[persona][field] ELSE <<>>

\* str.lower() of the literals the templates lowercase: persona names, tones,
\* desires and deliverable hints (a literal is one token)
LowerLiteral(t) ==
    CASE t = "Wellness Consumers" -> "wellness consumers"
      [] t = "Busy Parents" -> "busy parents"
      [] t = "Gen Z Creators" -> "gen z creators"
      [] t = "Premium Shoppers" -> "premium shoppers"
      [] t = "Indie Makers" -> "indie makers"
      [] t = "Warm storyteller" -> "warm storyteller"
      [] t = "Data-backed expert" -> "data-backed expert"
      [] t = "Hype friend" -> "hype friend"
      [] t = "Luxury concierge" -> "luxury concierge"
      [] t = "Playful mentor" -> "playful mentor"
      [] t = "Direct-to-consumer pitch" -> "direct-to-consumer pitch"
      [] t = "Storyboard the first 3 shots, keep them under 2s each." ->
             "storyboard the first 3 shots, keep them under 2s each."
      [] t = "Plan 5 slides with headline, proof, takeaway, CTA, reminder." ->
             "plan 5 slides with headline, proof, takeaway, cta, reminder."
      [] t = "Lean on pattern interrupts at second 1.5 and 3." ->
             "lean on pattern interrupts at second 1.5 and 3."
      [] t = "Design vertical graphics with layered typography." ->
             "design vertical graphics with layered typography."
      [] t = "Use kinetic text and ASMR-lite audio cues." ->
             "use kinetic text and asmr-lite audio cues."
      [] t = "Anchor your hook on a metric, close with a reflective question." ->
             "anchor your hook on a metric, close with a reflective question."
      [] t = "Break into intro, 3 insights, closing action." ->
             "break into intro, 3 insights, closing action."
      [] t = "Segment into letter, resource trio, and micro-challenge." ->
             "segment into letter, resource trio, and micro-challenge."
      [] t = "Simple self-nurture" -> "simple self-nurture"
      [] t = "Proof-backed benefits" -> "proof-backed benefits"
      [] t = "Products that feel like a hug" -> "products that feel like a hug"
      [] t = "Quick wins that feel meaningful" -> "quick wins that feel meaningful"
      [] t = "Flexible schedules" -> "flexible schedules"
      [] t = "Relatable stories" -> "relatable stories"
      [] t = "Playful experimentation" -> "playful experimentation"
      [] t = "Share-worthy hooks" -> "share-worthy hooks"
      [] t = "Community-first energy" -> "community-first energy"
      [] t = "Luxury cues" -> "luxury cues"
      [] t = "White-glove service" -> "white-glove service"
      [] t = "Testimonials" -> "testimonials"
      [] t = "Instagram Reel" -> "instagram reel"
      [] t = "Instagram Carousel" -> "instagram carousel"
      [] t = "TikTok" -> "tiktok"
      [] t = "Pinterest Pin" -> "pinterest pin"
      [] t = "YouTube Shorts" -> "youtube shorts"
      [] t = "LinkedIn" -> "linkedin"
      [] t = "Blog/Post" -> "blog/post"
      [] t = "Newsletter" -> "newsletter"
      [] OTHER -> t

\* str.title() of a mood name
TitleLiteral(t) ==
    CASE t = "cozy" -> "Cozy"
      [] t = "dreamy" -> "Dreamy"
      [] t = "minimalist" -> "Minimalist"
      [] t = "bold" -> "Bold"
      [] t = "poetic" -> "Poetic"
      [] t = "witty" -> "Witty"
      [] t = "cinematic" -> "Cinematic"
      [] t = "vintage" -> "Vintage"
      [] t = "kawaii" -> "Kawaii"
      [] t = "zen" -> "Zen"
      [] OTHER -> t

\* ", ".join(names) where every name is one token
RECURSIVE JoinLiterals(_, _)
JoinLiterals(sep, names) ==
    IF names = <<>> THEN <<>>
    ELSE IF Len(names) = 1 THEN <<names[1]>>
    ELSE <<names[1], sep>> \o JoinLiterals(sep, Tail(names))

(***************************** Pro unlock gate *****************************)
MSG_UNLOCKED == "Pro mode unlocked! Enjoy extended outputs, trend deep dives, and export packs."
MSG_ENTER_CODE == "Enter your unlock code to access Pro depth, or grab it via the purchase button."
MSG_NO_MATCH == "That code didn't match. Double-check your unlock email from Gumroad."

\* PRO_UNLOCK_CODE = os.getenv("PRO_UNLOCK_CODE", "loomvale-pro").strip().lower()
ProUnlockCodeOf(env) == Lower(Strip(GetEnv(env, DefaultUnlockCode)))

\* HF_TOKEN = os.getenv("HF_TOKEN", "").strip()
HfTokenOf(env) == Strip(GetEnv(env, <<>>))

\* unlock_pro comparing the code without lowercasing it
unlock_pro_case_sensitive(code) ==
    LET code_normalized == Strip(code)
    IN  IF code_normalized # <<>> /\ code_normalized = PRO_UNLOCK_CODE
        THEN <<MSG_UNLOCKED, TRUE>>
        ELSE IF code_normalized = <<>>
        THEN <<MSG_ENTER_CODE, FALSE>>
        ELSE <<MSG_NO_MATCH, FALSE>>

\* unlock_pro(code) -> (message, is_pro)
unlock_pro(code) ==
    LET code_normalized == Lower(Strip(code))
    IN  IF code_normalized # <<>> /\ code_normalized = PRO_UNLOCK_CODE
        THEN <<MSG_UNLOCKED, TRUE>>
        ELSE IF code_normalized = <<>>
        THEN <<MSG_ENTER_CODE, FALSE>>
        ELSE <<MSG_NO_MATCH, FALSE>>

(**************************** inference gateway ****************************)
\* The remote endpoint's behaviour for one request: it answers with a text
\* or the client raises (timeout, auth failure, malformed response).
Answer(text) == [raises |-> FALSE, text |-> text]
Failure == [raises |-> TRUE, text |-> <<>>]

\* call_llm without its try/except: the client's exception escapes
call_llm_uncaught(resp) ==
    IF ~(HF_TOKEN # <<>> /\ InferenceClient)
    THEN [text |-> <<>>, requests |-> 0, raised |-> FALSE]
    ELSE IF resp.raises
    THEN [text |-> <<>>, requests |-> 1, raised |-> TRUE]
    ELSE [text |-> Strip(resp.text), requests |-> 1, raised |-> FALSE]

\* call_llm(prompt, ...) against an endpoint behaving as resp; requests counts
\* the requests issued, raised tells whether an exception leaves call_llm
call_llm(resp) ==
    IF ~(HF_TOKEN # <<>> /\ InferenceClient)
    THEN [text |-> <<>>, requests |-> 0, raised |-> FALSE]
    ELSE IF resp.raises
    THEN [text |-> <<>>, requests |-> 1, raised |-> FALSE]
    ELSE [text |-> Strip(resp.text), requests |-> 1, raised |-> FALSE]

(************************ delimiter-based splitting ************************)
Delimiter == <<"-", "-", "-">>

\* the positions at which d occurs in s
Occurrences(s, d) ==
    {i \in 1..(Len(s) - Len(d) + 1) : SubSeq(s, i, i + Len(d) - 1) = d}

\* s.split(d): leftmost, non-overlapping occurrences of d
RECURSIVE Split(_, _)
Split(s, d) ==
    IF Occurrences(s, d) = {} THEN <<s>>
    ELSE LET i == CHOOSE k \in Occurrences(s, d) : \A m \in Occurrences(s, d) : k <= m
         IN  <<SubSeq(s, 1, i - 1)>> \o Split(SubSeq(s, i + Len(d), Len(s)), d)

\* [item.strip() for item in items if item.strip()]
RECURSIVE StripNonEmpty(_)
StripNonEmpty(items) ==
    IF items = <<>> THEN <<>>
    ELSE IF Strip(Head(items)) = <<>> THEN StripNonEmpty(Tail(items))
    ELSE <<Strip(Head(items))>> \o StripNonEmpty(Tail(items))

\* the remote path keeping the segments that are empty after trimming
RemoteItems_unfiltered(raw, capped_total) ==
    IF raw # <<>>
    THEN LET parts == Split(raw, Delimiter)
         IN  Prefix([k \in 1..Len(parts) |-> Strip(parts[k])], capped_total)
    ELSE <<>>

\* the remote path shared by generate_ideas and generate_captions
RemoteItems(raw, capped_total) ==
    IF raw # <<>> THEN Prefix(StripNonEmpty(Split(raw, Delimiter)), capped_total) ELSE <<>>

(****************************** idea expander ******************************)
MSG_MISSING_SEED == "Please enter a seed idea to expand."

\* the deliverable_hint lookup of fallback_ideas, defined on PLATFORMS only
deliverable_hint ==
    [p \in {PLATFORMS[i] : i \in 1..Len(PLATFORMS)} |->
       CASE p = "Instagram Reel" -> "Storyboard the first 3 shots, keep them under 2s each."
         [] p = "Instagram Carousel" -> "Plan 5 slides with headline, proof, takeaway, CTA, reminder."
         [] p = "TikTok" -> "Lean on pattern interrupts at second 1.5 and 3."
         [] p = "Pinterest Pin" -> "Design vertical graphics with layered typography."
         [] p = "YouTube Shorts" -> "Use kinetic text and ASMR-lite audio cues."
         [] p = "LinkedIn" -> "Anchor your hook on a metric, close with a reflective question."
         [] p = "Blog/Post" -> "Break into intro, 3 insights, closing action."
         [] p = "Newsletter" -> "Segment into letter, resource trio, and micro-challenge."]

\* ", ".join(persona_data.get("keywords", [])[:2])
PersonaKeywords(persona) == JoinLiterals(", ", Prefix(PersonaField(persona, "keywords"), 2))

\* moods or ["cozy"]
ActiveMoods(moods) == IF moods # <<>> THEN moods ELSE <<"cozy">>

\* the idea fallback_ideas appends at index i (0-based)
FallbackIdea(seed, platform, moods, persona, i) ==
    LET active_moods == ActiveMoods(moods)
        mood == active_moods[(i % Len(active_moods)) + 1]
        keywords == PersonaKeywords(persona)
        headline == <<TitleLiteral(mood), " take: ">> \o seed
                    \o <<" for ", LowerLiteral(persona)>>
        flow == <<"Frame it around ">>
                \o (IF keywords # <<>> THEN keywords ELSE <<"their daily rhythm">>)
                \o <<"; finish with ", LowerLiteral(deliverable_hint[platform])>>
        social_proof == <<"Use a quick stat or testimonial to anchor trust.">>
    IN  <<"**">> \o headline
        \o <<"** - Lead with a one-line story, ladder into a transformation, and nod to ",
             LowerLiteral(persona), " priorities. ">>
        \o flow \o <<". ">> \o social_proof

\* fallback_ideas looping over range(1, total)
fallback_ideas_short(seed, platform, moods, persona, total) ==
    [k \in 1..(total - 1) |-> FallbackIdea(seed, platform, moods, persona, k)]

\* fallback_ideas(seed, platform, moods, persona, total): range(total) is
\* empty for total <= 0
fallback_ideas(seed, platform, moods, persona, total) ==
    [k \in 1..total |-> FallbackIdea(seed, platform, moods, persona, k - 1)]

\* the wall clock counts ticks; strftime("%Y%m%d_%H%M%S") keeps whole seconds
TicksPerSecond == 2
Timestamp(now) == ToString(now \div TicksPerSecond)

CsvPath(now) == <<"/tmp/ideas_", Timestamp(now), ".csv">>
JsonPath(now) == <<"/tmp/ideas_", Timestamp(now), ".json">>

\* ", ".join(moods) if moods else "cozy"
MoodLine(moods) == IF moods # <<>> THEN JoinLiterals(", ", moods) ELSE <<"cozy">>

IdeaRows(ideas, platform, moods, persona) ==
    [k \in 1..Len(ideas) |->
        [platform |-> platform, persona |-> persona,
         moods |-> MoodLine(moods), idea |-> ideas[k]]]

\* "\n\n---\n\n".join(f"### Idea {idx + 1}\n\n{row['idea']}" ...)
IdeasMarkdown(rows) ==
    Join(<<"\n\n---\n\n">>,
         [k \in 1..Len(rows) |-> <<"### Idea ">> \o Str(k) \o <<"\n\n">> \o rows[k].idea])

\* the free cap set one too high
IdeaCap_cap5(total, is_pro) == IF is_pro THEN total ELSE Min(total, 5)

\* min(total, 4) unless pro
IdeaCap(total, is_pro) == IF is_pro THEN total ELSE Min(total, 4)

\* seed = (seed or "").strip(): a mishandled seed is left as typed
NormalizeSeed_unstripped(seed_in) == seed_in

\* seed = (seed or "").strip()
NormalizeSeed(seed_in) == Strip(seed_in)

\* generate_ideas(...) at wall-clock time now, against an endpoint behaving as
\* resp.  Besides the four returned values the result records what the call
\* did: the ideas list, which path filled it, the gateway requests issued and
\* the export paths written.
generate_ideas(seed_in, platform, moods, persona, total, use_llm, is_pro, resp, now) ==
    LET seed == NormalizeSeed(seed_in)
        capped_total == IdeaCap(total, is_pro)
        remote == use_llm /\ HF_TOKEN # <<>>
        llm == IF remote THEN call_llm(resp)
               ELSE [text |-> <<>>, requests |-> 0, raised |-> FALSE]
        remote_ideas == IF remote THEN RemoteItems(llm.text, capped_total) ELSE <<>>
        ideas == IF remote_ideas = <<>>
                 THEN fallback_ideas(seed, platform, moods, persona, capped_total)
                 ELSE remote_ideas
        rows == IdeaRows(ideas, platform, moods, persona)
    IN  IF seed = <<>>
        THEN [md |-> <<MSG_MISSING_SEED>>, rows |-> <<>>, csv_path |-> None, json_path |-> None,
              items |-> <<>>, source |-> "none", requests |-> 0, raised |-> FALSE,
              written |-> {}]
        ELSE IF llm.raised
        THEN [md |-> None, rows |-> <<>>, csv_path |-> None, json_path |-> None,
              items |-> <<>>, source |-> "none", requests |-> llm.requests, raised |-> TRUE,
              written |-> {}]
        ELSE [md |-> IdeasMarkdown(rows), rows |-> rows,
              csv_path |-> CsvPath(now), json_path |-> JsonPath(now),
              items |-> ideas,
              source |-> IF remote_ideas = <<>> THEN "fallback" ELSE "remote",
              requests |-> llm.requests, raised |-> FALSE,
              written |-> {CsvPath(now), JsonPath(now)}]

(***************************** caption studio ******************************)
MSG_MISSING_TEXT == "Paste a seed, article, or notes to generate captions."

fallback_captions(seed, article, persona, tone, platform, total) ==
    LET headline == IF seed # <<>> THEN seed
                    ELSE IF article # <<>> THEN Prefix(article, 60) \o <<"...">>
                    ELSE <<"Your story">>
        tone_hint == IF tone # "" THEN LowerLiteral(tone) ELSE "warm storyteller"
        keywords == PersonaKeywords(persona)
        hook == headline \o <<": ", LowerLiteral(persona), " deserve better.">>
        context == <<"Pull one proof point or micro-lesson from the article. Translate it into ",
                     LowerLiteral(persona), " language, sprinkling phrases like ">>
                   \o (IF keywords # <<>> THEN keywords ELSE <<"their daily life">>)
                   \o <<" to ground it.">>
        cta == <<"Close with a save/share CTA that promises an immediate win.">>
    IN  [k \in 1..total |->
            hook \o <<"\n\n">> \o context \o <<"\n\nCTA -> ">> \o cta
            \o <<" (Tone: ", tone_hint, ").">>]

CaptionsMarkdown(captions) ==
    Join(<<"\n\n---\n\n">>,
         [k \in 1..Len(captions) |-> <<"### Caption ">> \o Str(k) \o <<"\n\n">> \o captions[k]])

\* min(total, 3) unless pro
CaptionCap(total, is_pro) == IF is_pro THEN total ELSE Min(total, 3)

generate_captions(seed_in, article_in, persona, tone, platform, total, use_llm, is_pro, resp) ==
    LET article == Strip(article_in)
        seed == Strip(seed_in)
        capped_total == CaptionCap(total, is_pro)
        remote == use_llm /\ HF_TOKEN # <<>>
        llm == IF remote THEN call_llm(resp)
               ELSE [text |-> <<>>, requests |-> 0, raised |-> FALSE]
        remote_captions == IF remote THEN RemoteItems(llm.text, capped_total) ELSE <<>>
        captions == IF remote_captions = <<>>
                    THEN fallback_captions(seed, article, persona, tone, platform, capped_total)
                    ELSE remote_captions
    IN  IF seed = <<>> /\ article = <<>>
        THEN [md |-> <<MSG_MISSING_TEXT>>, items |-> <<>>, source |-> "none",
              requests |-> 0, raised |-> FALSE]
        ELSE IF llm.raised
        THEN [md |-> None, items |-> <<>>, source |-> "none",
              requests |-> llm.requests, raised |-> TRUE]
        ELSE [md |-> CaptionsMarkdown(captions), items |-> captions,
              source |-> IF remote_captions = <<>> THEN "fallback" ELSE "remote",
              requests |-> llm.requests, raised |-> FALSE]

(******************************* content kit *******************************)
MSG_MISSING_KIT_SEED == "Provide a seed to craft the content kit."

\* the template branch of build_content_kit
FallbackKit(seed, platform, persona, is_pro) ==
    LET desires == PersonaField(persona, "desires")
        keywords == PersonaField(persona, "keywords")
        hook_templates ==
            IF desires # <<>>
            THEN [k \in 1..Len(desires) |->
                    <<"What if ", LowerLiteral(persona), " could ", LowerLiteral(desires[k]),
                      " starting this week?">>]
            ELSE << <<"Start with a transformation hook tied to their daily life.">> >>
        visual_direction ==
            IF keywords # <<>>
            THEN <<"Lean into ", LowerLiteral(platform),
                   " native cues: mix close-up texture shots with overlay text that echoes '",
                   keywords[1], "'">>
            ELSE <<"Use platform-first visuals that mirror the seed '">> \o seed \o <<"'.">>
        cta_swaps == <<"Send me a DM with 'READY' and I'll forward the checklist.",
                       "Tap shop now and claim your first-order upgrade.",
                       "Save this for your reset routine and share with a friend who needs it.">>
        hashtags == <<"#contentthatconverts", "#brandstory", "#aestheticstrategy",
                      "#consumerinsights", "#{platform.replace(' ', '').lower()}tips">>
        nurture_flow ==
            <<"1. **Problem Post** - spotlight a common frustration and agitate it gently.\n",
              "2. **Proof Post** - share a demo, testimonial, or data-backed transformation.\n",
              "3. **Purchase Post** - unveil the offer with urgency anchored in persona desires.">>
    IN  <<"### Hook Headlines\n">>
        \o Join(<<"\n">>, [k \in 1..Len(hook_templates) |-> <<"- ">> \o hook_templates[k]])
        \o <<"\n\n### Visual Direction\n">> \o visual_direction
        \o <<"\n\n### CTA Swaps\n">>
        \o Join(<<"\n">>, [k \in 1..Len(cta_swaps) |-> <<"- ", cta_swaps[k]>>])
        \o <<"\n\n### Hashtag Stack\n">>
        \o JoinLiterals(" ", Prefix(hashtags, IF is_pro THEN 8 ELSE 5))
        \o <<"\n\n### 3-Post Nurture Flow\n">> \o nurture_flow

\* build_content_kit returning the gateway's text whenever use_llm is set,
\* empty or not
build_content_kit_raw(seed_in, platform, persona, is_pro, use_llm, resp) ==
    LET seed == Strip(seed_in)
        llm == IF use_llm THEN call_llm(resp)
               ELSE [text |-> <<>>, requests |-> 0, raised |-> FALSE]
    IN  IF seed = <<>>
        THEN [md |-> <<MSG_MISSING_KIT_SEED>>, source |-> "none",
              requests |-> 0, raised |-> FALSE]
        ELSE IF use_llm
        THEN [md |-> llm.text, source |-> "remote",
              requests |-> llm.requests, raised |-> llm.raised]
        ELSE [md |-> FallbackKit(seed, platform, persona, is_pro), source |-> "fallback",
              requests |-> llm.requests, raised |-> FALSE]

build_content_kit(seed_in, platform, persona, is_pro, use_llm, resp) ==
    LET seed == Strip(seed_in)
        remote == use_llm /\ HF_TOKEN # <<>>
        llm == IF remote THEN call_llm(resp)
               ELSE [text |-> <<>>, requests |-> 0, raised |-> FALSE]
    IN  IF seed = <<>>
        THEN [md |-> <<MSG_MISSING_KIT_SEED>>, source |-> "none",
              requests |-> 0, raised |-> FALSE]
        ELSE IF llm.raised
        THEN [md |-> None, source |-> "none", requests |-> llm.requests, raised |-> TRUE]
        ELSE IF remote /\ llm.text # <<>>
        THEN [md |-> llm.text, source |-> "remote",
              requests |-> llm.requests, raised |-> FALSE]
        ELSE [md |-> FallbackKit(seed, platform, persona, is_pro), source |-> "fallback",
              requests |-> llm.requests, raised |-> FALSE]

(******************************* input sets ********************************)
\* values of the HF_TOKEN environment variable
TokenEnvs == {Unset, <<>>, <<" ">>, <<"t">>, <<" ", "t", "\n">>}

\* values of the PRO_UNLOCK_CODE environment variable
SecretEnvs == {Unset, <<>>, <<" ", "P", "-">>}

CodeAlphabet == {"p", "P", "-", " "}

\* unlock codes a user may type
Codes ==
    SeqsUpTo(CodeAlphabet, MaxCodeLen)
    \cup {DefaultUnlockCode,
          <<"L","O","O","M","V","A","L","E","-","P","R","O"," ">>,
          <<"\t","L","o","o","m","v","a","l","e","-","P","r","o">>,
          <<"w","r","o","n","g">>}

RawAlphabet == {"a", "-", "\n", " "}

\* texts the remote endpoint may answer with
Raws == SeqsUpTo(RawAlphabet, MaxRawLen)

\* five segments separated by delimiter lines
FiveSegments ==
    <<"a", "\n", "-", "-", "-", "\n", "b", "\n", "-", "-", "-", "\n", "c", "\n",
      "-", "-", "-", "\n", "d", "\n", "-", "-", "-", "\n", "e">>

\* a few behaviours of the remote endpoint
Responses ==
    {Failure, Answer(<<" ", "-", "-", "-", "\n">>), Answer(<<"a", "a", " ">>),
     Answer(FiveSegments)}

Seeds == {<<>>, <<" ", "\n">>, <<"s">>, <<" ", "s", "t", " ">>}

Articles == {<<>>, <<" ">>, <<"n", "o", "t", "e">>}

PlatformSet == {PLATFORMS[i] : i \in 1..Len(PLATFORMS)}

\* the configured personas and one name PERSONAS does not know
PersonaSet == DOMAIN PERSONAS \cup {"Indie Makers"}

\* the idea slider: gr.Slider(3, 12)
IdeaTotals == 3..12

\* the caption slider: gr.Slider(2, 10)
CaptionTotals == 2..10

(****************************** initial states *****************************)
NoCall == [op |-> "none", args |-> <<>>, ret |-> <<>>, done |-> FALSE]

Call(op, args) == [op |-> op, args |-> args, ret |-> <<>>, done |-> FALSE]

Returned(op, args, ret) == [op |-> op, args |-> args, ret |-> ret, done |-> TRUE]

\* module import: the three globals are read from the environment once
InitGlobals ==
    /\ HF_TOKEN \in {HfTokenOf(e) : e \in TokenEnvs}
    /\ InferenceClient \in BOOLEAN
    /\ PRO_UNLOCK_CODE \in {ProUnlockCodeOf(e) : e \in SecretEnvs}

\* a fresh session: pro_state = gr.State(False), nothing exported yet
InitSession ==
    /\ pro_state = FALSE
    /\ clock = 0
    /\ files = <<>>
    /\ calls = 0

Init ==
    /\ InitGlobals
    /\ InitSession
    /\ last = NoCall

(********************************* handlers ********************************)
\* the export writer: open(path, "w") creates or truncates each path
WriteExports(written) ==
    IF written = {}
    THEN UNCHANGED <<files, calls>>
    ELSE /\ calls' = calls + 1
         /\ files' = [p \in DOMAIN files \cup written |->
                        IF p \in written THEN calls + 1 ELSE files[p]]

\* unlock_btn.click(unlock_pro, inputs=unlock_code, outputs=[unlock_status, pro_state])
UnlockClick ==
    \E code \in {<<>>, <<" ">>, <<"w","r","o","n","g">>, <<"P", "-", " ">>,
                 <<"L","O","O","M","V","A","L","E","-","P","R","O"," ">>} :
        LET ret == unlock_pro(code)
        IN  /\ last' = Returned("unlock_pro", [code |-> code], ret)
            /\ pro_state' = ret[2]
            /\ UNCHANGED <<HF_TOKEN, InferenceClient, PRO_UNLOCK_CODE, clock, files, calls>>

\* idea_btn.click(generate_ideas, inputs=[..., pro_state], outputs=[...])
IdeaClick ==
    /\ calls < MaxCalls
    /\ \E seed \in {<<>>, <<"s">>}, total \in {3, 6}, use_llm \in BOOLEAN,
          resp \in {Failure, Answer(<<"a", "-", "-", "-", "a">>)} :
        LET moods == <<"bold", "zen">>
            args == [seed |-> seed, platform |-> "TikTok", moods |-> moods,
                     persona |-> "Busy Parents", total |-> total, use_llm |-> use_llm,
                     is_pro |-> pro_state, resp |-> resp, now |-> clock]
            ret == generate_ideas(seed, "TikTok", moods, "Busy Parents", total, use_llm,
                                  pro_state, resp, clock)
        IN  /\ last' = Returned("generate_ideas", args, ret)
            /\ WriteExports(ret.written)
            /\ UNCHANGED <<HF_TOKEN, InferenceClient, PRO_UNLOCK_CODE, pro_state, clock>>

\* caption_btn.click(generate_captions, inputs=[..., pro_state], outputs=caption_md)
CaptionClick ==
    \E seed \in {<<>>, <<"s">>}, use_llm \in BOOLEAN,
       resp \in {Failure, Answer(<<"a", "-", "-", "-", "a">>)} :
        LET article == <<>>
            total == 5
            args == [seed |-> seed, article |-> article, persona |-> "Gen Z Creators",
                     tone |-> "Hype friend", platform |-> "LinkedIn", total |-> total,
                     use_llm |-> use_llm, is_pro |-> pro_state, resp |-> resp]
            ret == generate_captions(seed, article, "Gen Z Creators", "Hype friend",
                                     "LinkedIn", total, use_llm, pro_state, resp)
        IN  /\ last' = Returned("generate_captions", args, ret)
            /\ UNCHANGED <<HF_TOKEN, InferenceClient, PRO_UNLOCK_CODE, pro_state, clock,
                           files, calls>>

\* kit_btn.click(build_content_kit, inputs=[..., pro_state, use_llm_kit], outputs=kit_md)
KitClick ==
    \E seed \in {<<>>, <<"s">>}, use_llm \in BOOLEAN, resp \in {Failure, Answer(<<"a">>)} :
        LET args == [seed |-> seed, platform |-> "Newsletter", persona |-> "Premium Shoppers",
                     is_pro |-> pro_state, use_llm |-> use_llm, resp |-> resp]
            ret == build_content_kit(seed, "Newsletter", "Premium Shoppers", pro_state,
                                     use_llm, resp)
        IN  /\ last' = Returned("build_content_kit", args, ret)
            /\ UNCHANGED <<HF_TOKEN, InferenceClient, PRO_UNLOCK_CODE, pro_state, clock,
                           files, calls>>

\* time passes between two clicks
Tick ==
    /\ clock < MaxClock
    /\ clock' = clock + 1
    /\ UNCHANGED <<HF_TOKEN, InferenceClient, PRO_UNLOCK_CODE, pro_state, files, calls, last>>

Next == UnlockClick \/ IdeaClick \/ CaptionClick \/ KitClick \/ Tick

\* one interactive session
Spec == Init /\ [][Next]_vars

(******************** the functions exercised on their own *****************)
\* the globals of a process started without any of the environment variables
InitUnconfigured ==
    /\ HF_TOKEN = HfTokenOf(Unset)
    /\ InferenceClient \in BOOLEAN
    /\ PRO_UNLOCK_CODE = ProUnlockCodeOf(Unset)

\* the globals that decide whether the gateway is usable
InitGateway ==
    /\ HF_TOKEN \in {HfTokenOf(e) : e \in TokenEnvs}
    /\ InferenceClient \in BOOLEAN
    /\ PRO_UNLOCK_CODE = ProUnlockCodeOf(Unset)

Frame == UNCHANGED <<HF_TOKEN, InferenceClient, PRO_UNLOCK_CODE, pro_state, clock>>

\* ---- unlock_pro ----
InitUnlock ==
    /\ InitGlobals
    /\ InitSession
    /\ last \in {Call("unlock_pro", [code |-> c]) : c \in Codes}

UnlockPro ==
    /\ last.op = "unlock_pro" /\ ~last.done
    /\ last' = Returned(last.op, last.args, unlock_pro(last.args.code))
    /\ Frame /\ UNCHANGED <<files, calls>>

SpecUnlock == InitUnlock /\ [][UnlockPro]_vars

\* ---- call_llm ----
InitCallLlm ==
    /\ InitGateway
    /\ InitSession
    /\ last \in {Call("call_llm", [resp |-> r]) : r \in {Failure} \cup {Answer(t) : t \in Raws}}

CallLlm ==
    /\ last.op = "call_llm" /\ ~last.done
    /\ last' = Returned(last.op, last.args, call_llm(last.args.resp))
    /\ Frame /\ UNCHANGED <<files, calls>>

SpecGateway == InitCallLlm /\ [][CallLlm]_vars

\* ---- fallback_ideas ----
MaxMoods == 2

MoodLists == SeqsUpTo({"cozy", "bold", "zen"}, MaxMoods)

InitFallback ==
    /\ InitUnconfigured
    /\ InitSession
    /\ last \in {Call("fallback_ideas",
                      [seed |-> s, platform |-> pl, moods |-> m, persona |-> pe, total |-> n]) :
                 s \in {<<"s">>, <<"s", " ", "t">>}, pl \in PlatformSet, m \in MoodLists,
                 pe \in PersonaSet, n \in 0..MaxTotal}

FallbackIdeas ==
    /\ last.op = "fallback_ideas" /\ ~last.done
    /\ LET a == last.args
       IN  last' = Returned(last.op, a,
                            fallback_ideas(a.seed, a.platform, a.moods, a.persona, a.total))
    /\ Frame /\ UNCHANGED <<files, calls>>

SpecFallback == InitFallback /\ [][FallbackIdeas]_vars

\* ---- the three generators, over the whole range of every input control ----
IdeaCalls(seeds, platforms, moodlists, personas, totals, resps) ==
    {Call("generate_ideas",
          [seed |-> s, platform |-> pl, moods |-> m, persona |-> pe, total |-> n,
           use_llm |-> u, is_pro |-> pro, resp |-> r, now |-> 0]) :
     s \in seeds, pl \in platforms, m \in moodlists, pe \in personas, n \in totals,
     u \in BOOLEAN, pro \in BOOLEAN, r \in resps}

CaptionCalls(seeds, articles, personas, tones, platforms, totals, resps) ==
    {Call("generate_captions",
          [seed |-> s, article |-> ar, persona |-> pe, tone |-> t, platform |-> pl,
           total |-> n, use_llm |-> u, is_pro |-> pro, resp |-> r]) :
     s \in seeds, ar \in articles, pe \in personas, t \in tones, pl \in platforms,
     n \in totals, u \in BOOLEAN, pro \in BOOLEAN, r \in resps}

KitCalls(seeds, platforms, personas, resps) ==
    {Call("build_content_kit",
          [seed |-> s, platform |-> pl, persona |-> pe, is_pro |-> pro, use_llm |-> u,
           resp |-> r]) :
     s \in seeds, pl \in platforms, pe \in personas, u \in BOOLEAN, pro \in BOOLEAN,
     r \in resps}

GenerateIdeas ==
    /\ last.op = "generate_ideas" /\ ~last.done
    /\ LET a == last.args
           ret == generate_ideas(a.seed, a.platform, a.moods, a.persona, a.total,
                                 a.use_llm, a.is_pro, a.resp, a.now)
       IN  /\ last' = Returned(last.op, a, ret)
           /\ WriteExports(ret.written)
    /\ Frame

GenerateCaptions ==
    /\ last.op = "generate_captions" /\ ~last.done
    /\ LET a == last.args
       IN  last' = Returned(last.op, a,
                            generate_captions(a.seed, a.article, a.persona, a.tone, a.platform,
                                              a.total, a.use_llm, a.is_pro, a.resp))
    /\ Frame /\ UNCHANGED <<files, calls>>

BuildContentKit ==
    /\ last.op = "build_content_kit" /\ ~last.done
    /\ LET a == last.args
       IN  last' = Returned(last.op, a,
                            build_content_kit(a.seed, a.platform, a.persona, a.is_pro,
                                              a.use_llm, a.resp))
    /\ Frame /\ UNCHANGED <<files, calls>>

InitGen ==
    /\ InitGateway
    /\ InitSession
    /\ last \in IdeaCalls({<<"s">>}, PlatformSet, {<<"dreamy", "witty">>}, PersonaSet,
                          IdeaTotals, Responses)
           \cup IdeaCalls(Seeds \ {<<"s">>}, PlatformSet, {<<>>}, PersonaSet,
                          {3, 7, 12}, Responses)
           \cup CaptionCalls({<<>>, <<"s">>}, Articles, PersonaSet, {"Playful mentor"},
                             {"Pinterest Pin"}, CaptionTotals, Responses)
           \cup KitCalls(Seeds, PlatformSet, PersonaSet, Responses)

NextGen == GenerateIdeas \/ GenerateCaptions \/ BuildContentKit

SpecGen == InitGen /\ [][NextGen]_vars

\* ---- the remote path, over every short gateway response ----
InitRemote ==
    /\ HF_TOKEN = HfTokenOf(<<"t">>)
    /\ InferenceClient = TRUE
    /\ PRO_UNLOCK_CODE = ProUnlockCodeOf(Unset)
    /\ InitSession
    /\ LET resps == {Answer(t) : t \in Raws}
       IN  last \in IdeaCalls({<<"s">>}, {"YouTube Shorts"}, {<<>>}, {"Wellness Consumers"},
                              {3}, resps)
               \cup CaptionCalls({<<"s">>}, {<<>>}, {"Wellness Consumers"},
                                 {"Luxury concierge"}, {"Blog/Post"}, {2}, resps)

NextRemote == GenerateIdeas \/ GenerateCaptions

SpecRemote == InitRemote /\ [][NextRemote]_vars

\* ---- generate_ideas, over every gateway configuration and short response ----
InitIdeas ==
    /\ InitGateway
    /\ InitSession
    /\ last \in IdeaCalls({<<" ", "s">>}, {"Instagram Carousel"}, {<<"bold", "zen">>},
                          {"Gen Z Creators"}, {1, 5},
                          {Failure} \cup {Answer(t) : t \in Raws})

SpecIdeas == InitIdeas /\ [][GenerateIdeas]_vars

(***************************************************************************)
(*                               properties                                *)
(***************************************************************************)
IsGenerator(op) == op \in {"generate_ideas", "generate_captions", "build_content_kit"}

\* s consists of whitespace only
Blank(s) == \A k \in 1..Len(s) : s[k] \in Whitespace

\* core is s without its surrounding whitespace
IsTrimOf(core, s) ==
    \E i \in 1..(Len(s) + 1), j \in 0..Len(s) :
        /\ core = SubSeq(s, i, j)
        /\ \A k \in 1..Len(s) : (k < i \/ k > j) => s[k] \in Whitespace
        /\ core # <<>> => (core[1] \notin Whitespace /\ core[Len(core)] \notin Whitespace)

\* c and d are the same character up to case
SameLetter(c, d) == c = d \/ \E i \in 1..26 : {c, d} = {UpperCase[i], LowerCase[i]}

\* code, trimmed and compared case-insensitively, is the configured secret
MatchesSecret(code) ==
    \E i \in 1..(Len(code) + 1), j \in 0..Len(code) :
        LET core == SubSeq(code, i, j)
        IN  /\ IsTrimOf(core, code)
            /\ Len(core) = Len(PRO_UNLOCK_CODE)
            /\ \A k \in 1..Len(core) : SameLetter(core[k], PRO_UNLOCK_CODE[k])

\* the number of ideas or captions a generator call produced
ItemCount(call) ==
    IF call.op = "generate_ideas" THEN Len(call.ret.rows) ELSE Len(call.ret.items)

\* the free cap of a generator: 4 ideas, 3 captions
FreeCap(op) == IF op = "generate_ideas" THEN 4 ELSE 3

\* the call is a generate_ideas / generate_captions call that returned items
CountedCall ==
    /\ last.done
    /\ last.op \in {"generate_ideas", "generate_captions"}
    /\ ~Blank(last.args.seed)
    /\ last.args.total \in (IF last.op = "generate_ideas" THEN IdeaTotals ELSE CaptionTotals)

\* C1 (as stated): without Pro a generator returns at most 4 ideas / 3 captions
\* and with Pro it returns exactly the requested number, on either path.
C1_CountMatchesRequest ==
    CountedCall =>
        /\ ~last.args.is_pro => ItemCount(last) <= FreeCap(last.op)
        /\ last.args.is_pro => ItemCount(last) = last.args.total

\* C1 (amended): the number of ideas / captions returned never exceeds the
\* effective count (min(requested, 4 resp. 3) without Pro, the requested count
\* with Pro) and equals it whenever the fallback path produced the items.
C1_CountWithinEffective ==
    CountedCall =>
        LET effective == IF last.args.is_pro THEN last.args.total
                         ELSE Min(last.args.total, FreeCap(last.op))
        IN  /\ ItemCount(last) <= effective
            /\ ~last.args.is_pro => ItemCount(last) <= FreeCap(last.op)
            /\ last.ret.source = "fallback" => ItemCount(last) = effective

C1_Witness ==
    /\ CountedCall
    /\ last.op = "generate_ideas"
    /\ last.args.is_pro
    /\ last.ret.source = "remote"
    /\ ItemCount(last) = 5
    /\ last.args.total = 12

\* C2 (as stated): unlock_pro returns is_pro = TRUE exactly when the trimmed,
\* lowercased code equals the secret; a blank code gets the enter-code message
\* and any other non-matching code the error message, both with is_pro = FALSE.
C2_UnlockIffMatch ==
    (last.op = "unlock_pro" /\ last.done) =>
        LET code == last.args.code
            ret == last.ret
        IN  /\ ret[2] = MatchesSecret(code)
            /\ Blank(code) => ret = <<MSG_ENTER_CODE, FALSE>>
            /\ (~Blank(code) /\ ~MatchesSecret(code)) => ret = <<MSG_NO_MATCH, FALSE>>

\* C2 (amended): unlock_pro returns is_pro = TRUE exactly when the trimmed,
\* lowercased code is non-empty and equals the secret; a blank code gets the
\* enter-code message and any other non-matching code the error message.
C2_UnlockIffNonEmptyMatch ==
    (last.op = "unlock_pro" /\ last.done) =>
        LET code == last.args.code
            ret == last.ret
        IN  /\ ret[2] = (~Blank(code) /\ MatchesSecret(code))
            /\ (~Blank(code) /\ MatchesSecret(code)) => ret[1] = MSG_UNLOCKED
            /\ Blank(code) => ret = <<MSG_ENTER_CODE, FALSE>>
            /\ (~Blank(code) /\ ~MatchesSecret(code)) => ret = <<MSG_NO_MATCH, FALSE>>

C2_Witness ==
    /\ last.op = "unlock_pro" /\ last.done
    /\ last.ret[2] = TRUE
    /\ last.args.code = <<"L","O","O","M","V","A","L","E","-","P","R","O"," ">>

\* C3: the session Pro flag starts false, becomes true only through an unlock
\* attempt whose normalized code matches the secret, and once true stays true.
C3_ProFlagLatches ==
    /\ pro_state = FALSE
    /\ [][/\ (~pro_state /\ pro_state') =>
               (last'.op = "unlock_pro" /\ MatchesSecret(last'.args.code))
          /\ pro_state => pro_state']_vars

\* C4: an unlock attempt with a blank code leaves the session Pro flag as it was.
C4_BlankUnlockKeepsFlag ==
    [][(last' # last /\ last'.op = "unlock_pro" /\ Blank(last'.args.code))
          => pro_state' = pro_state]_vars

\* C5: call_llm never raises; without a credential or client library it
\* returns "" and issues no request; otherwise it issues exactly one request
\* and returns "" if that raises, the trimmed response text if it succeeds.
C5_CallLlmSoftFails ==
    (last.op = "call_llm" /\ last.done) =>
        LET resp == last.args.resp
            ret == last.ret
        IN  /\ ~ret.raised
            /\ (HF_TOKEN = <<>> \/ ~InferenceClient) => (ret.text = <<>> /\ ret.requests = 0)
            /\ (HF_TOKEN # <<>> /\ InferenceClient) =>
                  /\ ret.requests = 1
                  /\ resp.raises => ret.text = <<>>
                  /\ ~resp.raises => IsTrimOf(ret.text, resp.text)

C5_Witness ==
    /\ last.op = "call_llm" /\ last.done
    /\ HF_TOKEN # <<>> /\ InferenceClient
    /\ last.args.resp.raises
    /\ last.ret.text = <<>>

\* the template output of a generator call with a usable seed
FallbackOutput(call) ==
    LET a == call.args
        seed == Strip(a.seed)
    IN  CASE call.op = "generate_ideas" ->
               IdeasMarkdown(IdeaRows(
                   fallback_ideas(seed, a.platform, a.moods, a.persona,
                                  IF a.is_pro THEN a.total ELSE Min(a.total, 4)),
                   a.platform, a.moods, a.persona))
          [] call.op = "generate_captions" ->
               CaptionsMarkdown(
                   fallback_captions(seed, Strip(a.article), a.persona, a.tone, a.platform,
                                     IF a.is_pro THEN a.total ELSE Min(a.total, 3)))
          [] call.op = "build_content_kit" ->
               FallbackKit(seed, a.platform, a.persona, a.is_pro)

\* the text the same call returns with the use_llm flag set to flag
OutputWithFlag(call, flag) ==
    LET a == call.args
    IN  CASE call.op = "generate_ideas" ->
               generate_ideas(a.seed, a.platform, a.moods, a.persona, a.total, flag,
                              a.is_pro, a.resp, a.now).md
          [] call.op = "generate_captions" ->
               generate_captions(a.seed, a.article, a.persona, a.tone, a.platform, a.total,
                                 flag, a.is_pro, a.resp).md
          [] call.op = "build_content_kit" ->
               build_content_kit(a.seed, a.platform, a.persona, a.is_pro, flag, a.resp).md

\* the call has the text it needs: a seed, or for captions a seed or an article
HasText(call) ==
    \/ ~Blank(call.args.seed)
    \/ call.op = "generate_captions" /\ ~Blank(call.args.article)

\* C6: without a credential the text a generator returns is non-empty, is the
\* template (fallback) text for its inputs and does not depend on use_llm.
C6_DisabledGatewayIsFallback ==
    (last.done /\ IsGenerator(last.op) /\ HF_TOKEN = <<>>) =>
        /\ last.ret.md # <<>>
        /\ last.ret.requests = 0
        /\ last.ret.md = OutputWithFlag(last, ~last.args.use_llm)
        /\ HasText(last) => (last.ret.source = "fallback" /\ last.ret.md = FallbackOutput(last))

C6_Witness ==
    /\ last.done /\ last.op = "generate_captions" /\ HF_TOKEN = <<>>
    /\ last.args.use_llm
    /\ ~last.args.resp.raises
    /\ HasText(last)
    /\ last.ret.md = FallbackOutput(last)

\* C7: generate_ideas with a blank seed returns the missing-seed message, an
\* empty row list and no file paths, issues no gateway request and writes no
\* export file, whatever the other inputs are.
C7_BlankSeedNoEffect ==
    (last.done /\ last.op = "generate_ideas" /\ Blank(last.args.seed)) =>
        /\ last.ret.md = <<MSG_MISSING_SEED>>
        /\ last.ret.rows = <<>>
        /\ last.ret.csv_path = None
        /\ last.ret.json_path = None
        /\ last.ret.requests = 0
        /\ DOMAIN files = {}
        /\ calls = 0

C7_Witness ==
    /\ last.done /\ last.op = "generate_ideas"
    /\ last.args.seed = <<" ", "\n">>
    /\ last.args.use_llm /\ HF_TOKEN # <<>> /\ InferenceClient
    /\ last.ret.md = <<MSG_MISSING_SEED>>

\* C8: fallback_ideas returns exactly total ideas, each containing the seed
\* verbatim, the i-th (0-based) opening with the mood at index i mod n of the
\* chosen moods, or with "cozy" when none is chosen.
C8_FallbackIdeasShape ==
    (last.done /\ last.op = "fallback_ideas") =>
        LET a == last.args
            ideas == last.ret
            chosen == IF a.moods = <<>> THEN <<"cozy">> ELSE a.moods
        IN  /\ Len(ideas) = a.total
            /\ \A i \in 0..(a.total - 1) :
                  /\ Contains(ideas[i + 1], a.seed)
                  /\ SubSeq(ideas[i + 1], 1, 3)
                       = <<"**", TitleLiteral(chosen[(i % Len(chosen)) + 1]), " take: ">>

C8_Witness ==
    /\ last.done /\ last.op = "fallback_ideas"
    /\ last.args.moods = <<"bold", "zen">>
    /\ last.args.total = 3
    /\ Len(last.ret) = 3
    /\ last.ret[3][2] = "Bold"

\* the segments of raw between the lines whose whole content is the delimiter
RECURSIVE GroupLines(_, _)
GroupLines(lines, current) ==
    IF lines = <<>> THEN <<Join(<<"\n">>, current)>>
    ELSE IF Head(lines) = Delimiter
    THEN <<Join(<<"\n">>, current)>> \o GroupLines(Tail(lines), <<>>)
    ELSE GroupLines(Tail(lines), Append(current, Head(lines)))

LineSegments(raw) == GroupLines(Split(raw, <<"\n">>), <<>>)

\* C9: on the remote path the gateway's text is cut only at lines whose whole
\* content is '---'; segments are trimmed, empty ones dropped, and the list is
\* truncated to the effective count.
C9_SplitOnDelimiterLines ==
    (last.done /\ last.op \in {"generate_ideas", "generate_captions"}) =>
        LET a == last.args
            effective == IF a.is_pro THEN a.total ELSE Min(a.total, FreeCap(last.op))
            raw == Strip(a.resp.text)
            expected == Prefix(StripNonEmpty(LineSegments(raw)), effective)
        IN  (a.use_llm /\ expected # <<>>) => last.ret.items = expected

\* C10: no generate_ideas call overwrites an export file an earlier call wrote.
C10_ExportsNeverOverwritten ==
    [][\A p \in DOMAIN files : p \in DOMAIN files' /\ files'[p] = files[p]]_vars

\* s is made of delimiters and whitespace only (the empty text included)
RECURSIVE OnlyDelimiters(_)
OnlyDelimiters(s) ==
    \/ s = <<>>
    \/ Head(s) \in Whitespace /\ OnlyDelimiters(Tail(s))
    \/ Len(s) >= 3 /\ SubSeq(s, 1, 3) = Delimiter /\ OnlyDelimiters(SubSeq(s, 4, Len(s)))

\* the remote path of the call cannot yield a usable segment: the flag is off,
\* the gateway is disabled, the request fails, or the answer is empty or made
\* of delimiters and whitespace only
NoUsableSegment(call) ==
    \/ ~call.args.use_llm
    \/ HF_TOKEN = <<>>
    \/ ~InferenceClient
    \/ call.args.resp.raises
    \/ OnlyDelimiters(call.args.resp.text)

\* C11: generate_ideas with a non-empty seed whose remote path yields no usable
\* segment returns exactly effective_count template ideas of fallback_ideas,
\* one row per idea in order, and at least one row for a requested count >= 1.
C11_FallbackWhenNoSegments ==
    (/\ last.done /\ last.op = "generate_ideas"
     /\ ~Blank(last.args.seed)
     /\ last.args.total >= 1
     /\ NoUsableSegment(last)) =>
        LET a == last.args
            rows == last.ret.rows
            effective == IF a.is_pro THEN a.total ELSE Min(a.total, 4)
            template == fallback_ideas(Strip(a.seed), a.platform, a.moods, a.persona, effective)
        IN  /\ Len(rows) = effective
            /\ rows # <<>>
            /\ \A k \in 1..Len(rows) :
                  /\ k <= Len(template)
                  /\ rows[k].idea = template[k]
                  /\ rows[k].platform = a.platform
                  /\ rows[k].persona = a.persona
            /\ last.ret.source = "fallback"

C11_Witness ==
    /\ last.done /\ last.op = "generate_ideas"
    /\ last.args.use_llm /\ HF_TOKEN # <<>> /\ InferenceClient
    /\ last.args.resp = Answer(<<" ", "-", "-", "-", "\n">>)
    /\ last.args.is_pro /\ last.args.total = 5
    /\ Len(last.ret.rows) = 5
    /\ last.ret.source = "fallback"

====
